---- MODULE Spec2Model ----
(***************************************************************************)
(* A model of the LIFX motion controller: the packet codec of              *)
(* packet_builder.py (pure functions, checked under SpecCodec) and the     *)
(* MotionHandler state machine with its poll loop of lifx.py (checked      *)
(* under Spec).                                                            *)
(*                                                                         *)
(* Representation of Python values.  A Python int that is handed to        *)
(* Packet.Part.Parameter is a record [neg, limbs]: its sign and the three  *)
(* base-65536 limbs of its magnitude, least significant first, because     *)
(* int(duration * 1000) exceeds the 31-bit integers of TLC.  A decoded     *)
(* field of at most 16 bits is an integer, a wider one the sequence of     *)
(* its 16-bit limbs, least significant first.  Exceptions are values       *)
(* [err |-> <name>]; err = "none" is a normal return.                      *)
(***************************************************************************)
EXTENDS Integers, Sequences, FiniteSets, TLC

(***************************************************************************)
(* Bounds of the model.                                                    *)
(***************************************************************************)
\* packbytes is tried on every triple of widths whose sum is at most this
MaxPackBits == 6

\* sensor events (motion, no_motion) in one run of the controller
MaxEvents == 3

\* executions of MotionHandler.timeout that overlap
MaxTimeouts == 2

(***************************************************************************)
(* packet_builder.py: helpers                                              *)
(***************************************************************************)
Zeros(n) == [i \in 1..n |-> 0]

Max(a, b) == IF a >= b THEN a ELSE b

Min(a, b) == IF a <= b THEN a ELSE b

\* Python's seq[lo:hi] for 0 <= lo (0-based, hi exclusive, clipped to the length)
Slice(s, lo, hi) == SubSeq(s, lo + 1, Min(hi, Len(s)))

RECURSIVE StripZeros(_)
\* s without its trailing zero bytes
StripZeros(s) ==
    IF s = <<>> THEN <<>>
    ELSE IF s[Len(s)] = 0 THEN StripZeros(SubSeq(s, 1, Len(s) - 1))
    ELSE s

\* the Python int n (|n| < 2^31) as sign and limbs
PyInt(n) ==
    LET m == IF n < 0 THEN 0 - n ELSE n
    IN  [neg |-> n < 0, limbs |-> <<m % 65536, m \div 65536, 0>>]

IsZero(v) == v.limbs = <<0, 0, 0>>

\* tobytes(number): int(number / 8)
tobytes(number) == number \div 8

RECURSIVE SmallBytes(_)
\* the little-endian bytes of n >= 0, none for 0
SmallBytes(n) == IF n = 0 THEN <<>> ELSE <<n % 256>> \o SmallBytes(n \div 256)

\* to_bytearray with the bytes most significant first
to_bytearray_big_endian(num) ==
    LET le == StripZeros(<<num.limbs[1] % 256, num.limbs[1] \div 256,
                           num.limbs[2] % 256, num.limbs[2] \div 256>>
                         \o SmallBytes(num.limbs[3]))
    IN  [i \in 1..Len(le) |-> le[Len(le) + 1 - i]]

\* to_bytearray(num) for num >= 0: list(num.to_bytes((bit_length + 7) // 8, "little")),
\* the little-endian bytes of num without leading (most significant) zero bytes
to_bytearray(num) ==
    StripZeros(<<num.limbs[1] % 256, num.limbs[1] \div 256,
                 num.limbs[2] % 256, num.limbs[2] \div 256>>
               \o SmallBytes(num.limbs[3]))

RECURSIVE BitOr(_, _)
\* x | y for x, y >= 0
BitOr(x, y) ==
    IF x = 0 THEN y
    ELSE IF y = 0 THEN x
    ELSE 2 * BitOr(x \div 2, y \div 2) + (IF x % 2 = 1 \/ y % 2 = 1 THEN 1 ELSE 0)

\* packbytes.append: prev <<= length; prev |= val
packAppend(prev, new) == BitOr(prev * (2 ^ new[2]), new[1])

RECURSIVE packReduce(_, _)
packReduce(prev, pieces) ==
    IF pieces = <<>> THEN prev
    ELSE packReduce(packAppend(prev, Head(pieces)), Tail(pieces))

RECURSIVE packReduceLow(_, _, _)
packReduceLow(acc, shift, pieces) ==
    IF pieces = <<>> THEN acc
    ELSE packReduceLow(acc + Head(pieces)[1] * (2 ^ shift), shift + Head(pieces)[2],
                       Tail(pieces))

\* packbytes with the first piece in the least significant bits
packbytes_first_lowest(pieces) == packReduceLow(0, 0, pieces)

\* packbytes(*pieces): reduce(append, pieces, pieces[0][0]); the initial value is
\* the first piece's value, and the first piece is then appended as well
packbytes(pieces) == packReduce(pieces[1][1], pieces)

RECURSIVE BinDigits(_)
\* the binary digits of n > 0, most significant first; none for 0
BinDigits(n) == IF n = 0 THEN <<>> ELSE BinDigits(n \div 2) \o <<n % 2>>

\* f"{piece:0{size}b}": the binary digits, zero-padded on the left to at least
\* size characters (a value of more than size bits gives a longer string)
BinString(piece, size) ==
    LET d == IF piece = 0 THEN <<0>> ELSE BinDigits(piece)
    IN  Zeros(Max(0, size - Len(d))) \o d

RECURSIVE BinValue(_)
\* int(part, 2) of a non-empty string of binary digits
BinValue(part) ==
    IF part = <<>> THEN 0
    ELSE 2 * BinValue(SubSeq(part, 1, Len(part) - 1)) + part[Len(part)]

RECURSIVE SumBits(_)
\* sum(size.values())
SumBits(subsizes) ==
    IF subsizes = <<>> THEN 0 ELSE Head(subsizes)[2] + SumBits(Tail(subsizes))

RECURSIVE deconstructSub(_, _, _, _)
\* deconstruct, the composite branch: slice the size-wide binary string of piece
\* left to right by subsizes, a sequence of <<key, bits>>
deconstructSub(piece, size, subsizes, subindex) ==
    IF subsizes = <<>> THEN <<>>
    ELSE LET k == Head(subsizes)[1]
             subsize == Head(subsizes)[2]
             part == Slice(BinString(piece, size), subindex, subindex + subsize)
         IN  <<[key |-> k, val |-> BinValue(part)]>>
             \o deconstructSub(piece, size, Tail(subsizes), subindex + subsize)

RECURSIVE FromBytes(_)
\* int.from_bytes(piece, "little") of at most three bytes
FromBytes(piece) ==
    IF piece = <<>> THEN 0 ELSE Head(piece) + 256 * FromBytes(Tail(piece))

RECURSIVE FromBytesWide(_)
\* int.from_bytes(piece, "little") as 16-bit limbs, least significant first,
\* without the most significant zero limbs
FromBytesWide(piece) ==
    IF StripZeros(piece) = <<>> THEN <<>>
    ELSE <<FromBytes(Slice(piece, 0, 2))>> \o FromBytesWide(Slice(piece, 2, Len(piece)))

RECURSIVE deconstruct(_, _, _)
\* deconstruct(packet, sizes): the sequence of (key, value) it yields, from byte
\* offset index on.  sizes is a sequence of [key, size, sub]: sub is the ordered
\* <<key, bits>> of a composite field and <<>> for a plain one.
deconstruct(packet, sizes, index) ==
    IF sizes = <<>> THEN <<>>
    ELSE LET e == Head(sizes)
             size == IF e.sub # <<>> THEN SumBits(e.sub) ELSE e.size
             piece == Slice(packet, index, index + size \div 8)
             rest == deconstruct(packet, Tail(sizes), index + size \div 8)
         IN  IF e.sub # <<>>
             THEN deconstructSub(FromBytes(piece), size, e.sub, 0) \o rest
             ELSE <<[key |-> e.key,
                     val |-> IF size <= 16 THEN FromBytes(piece)
                             ELSE FromBytesWide(piece)]>> \o rest

Plain(k, bits) == [key |-> k, size |-> bits, sub |-> <<>>]

Composite(k, subs) == [key |-> k, size |-> 0, sub |-> subs]

MSGHEADER ==
    << Plain("size", 16),
       Composite("protocol", << <<"origin", 2>>, <<"tagged", 1>>,
                                <<"addressable", 1>>, <<"protocol", 12>> >>),
       Plain("source", 32),
       Plain("target", 64),
       Plain("reserved", 48),
       Composite("resp", << <<"reserved", 6>>, <<"ack_required", 1>>,
                            <<"res_required", 1>> >>),
       Plain("sequence", 8),
       Plain("reserved", 64),
       Plain("type", 16),
       Plain("reserved", 16) >>

RECURSIVE SchemaBytes(_)
\* the number of bytes a schema reads
SchemaBytes(sizes) ==
    IF sizes = <<>> THEN 0
    ELSE (IF Head(sizes).sub # <<>> THEN SumBits(Head(sizes).sub) ELSE Head(sizes).size) \div 8
         + SchemaBytes(Tail(sizes))

\* dict(result).get(k, default): the value of the last pair with key k
DictGet(pairs, k, default) ==
    LET hits == {i \in 1..Len(pairs) : pairs[i].key = k}
    IN  IF hits = {} THEN default
        ELSE pairs[CHOOSE i \in hits : \A j \in hits : j <= i].val

(***************************************************************************)
(* packet_builder.py: Packet                                               *)
(***************************************************************************)
\* Parameter that keeps the low length bytes of an oversized values and writes
\* nothing for a negative one, raising nothing
Parameter_truncating(name, values, length) ==
    IF IsZero(values) \/ values.neg
    THEN [err |-> "none", name |-> name, bytes |-> Zeros(length)]
    ELSE LET val == to_bytearray(values)
             padded == val \o Zeros(Max(0, length - Len(val)))
         IN  [err |-> "none", name |-> name, bytes |-> SubSeq(padded, 1, length)]

\* Packet.Part.Parameter(name, values, length) for a scalar values: a zero-filled
\* bytearray of length bytes; a truthy values is written over it byte by byte,
\* self[i] = value, which raises IndexError past the end; to_bytes raises
\* OverflowError for a negative values
Parameter(name, values, length) ==
    IF IsZero(values) THEN [err |-> "none", name |-> name, bytes |-> Zeros(length)]
    ELSE IF values.neg THEN [err |-> "OverflowError", name |-> name, bytes |-> <<>>]
    ELSE LET val == to_bytearray(values)
             padded == val \o Zeros(Max(0, length - Len(val)))
         IN  IF Len(padded) > length
             THEN [err |-> "IndexError", name |-> name, bytes |-> <<>>]
             ELSE [err |-> "none", name |-> name, bytes |-> padded]

PartNames == <<"frame", "frame_address", "protocol_header", "payload">>

\* Packet(): four empty parts
NewPacket ==
    [err |-> "none", frame |-> <<>>, frame_address |-> <<>>,
     protocol_header |-> <<>>, payload |-> <<>>]

\* part.append_param(name, values, length); a packet whose construction has
\* raised stays as it is
append_param(pkt, part, name, values, length) ==
    LET p == Parameter(name, values, length)
    IN  IF pkt.err # "none" THEN pkt
        ELSE IF p.err # "none" THEN [pkt EXCEPT !.err = p.err]
        ELSE [pkt EXCEPT ![part] = Append(@, [name |-> p.name, bytes |-> p.bytes])]

\* part.prepend_param(name, value, length)
prepend_param(pkt, part, name, values, length) ==
    LET p == Parameter(name, values, length)
    IN  IF pkt.err # "none" THEN pkt
        ELSE IF p.err # "none" THEN [pkt EXCEPT !.err = p.err]
        ELSE [pkt EXCEPT ![part] = <<[name |-> p.name, bytes |-> p.bytes]>> \o @]

RECURSIVE PartLen(_)
\* Part.__len__: sum of the parameters' lengths
PartLen(params) ==
    IF params = <<>> THEN 0 ELSE Len(Head(params).bytes) + PartLen(Tail(params))

\* Packet.__len__: sum of the parts' lengths
PacketLen(pkt) ==
    PartLen(pkt.frame) + PartLen(pkt.frame_address)
    + PartLen(pkt.protocol_header) + PartLen(pkt.payload)

\* set_size that takes len(self) before the size parameter is prepended
set_size_before_prepend(pkt) ==
    LET p == Parameter("size", PyInt(PacketLen(pkt)), 2)
    IN  IF pkt.err # "none" THEN pkt
        ELSE IF p.err # "none" THEN [pkt EXCEPT !.err = p.err]
        ELSE [pkt EXCEPT !.frame = <<[name |-> p.name, bytes |-> p.bytes]>> \o @]

\* Packet.set_size(length = 2): prepend a zero "size" parameter of length bytes,
\* then replace it by Parameter("size", len(self), 2), len taken after the prepend
set_size(pkt) ==
    LET pre == prepend_param(pkt, "frame", "size", PyInt(0), 2)
        p == Parameter("size", PyInt(PacketLen(pre)), 2)
    IN  IF pre.err # "none" THEN pre
        ELSE IF p.err # "none" THEN [pre EXCEPT !.err = p.err]
        ELSE [pre EXCEPT !.frame[1] = [name |-> p.name, bytes |-> p.bytes]]

RECURSIVE PartBytes(_)
PartBytes(params) ==
    IF params = <<>> THEN <<>> ELSE Head(params).bytes \o PartBytes(Tail(params))

\* Packet.bytearray(): every parameter's bytes, parts in get_parts() order
PacketBytes(pkt) ==
    PartBytes(pkt.frame) \o PartBytes(pkt.frame_address)
    \o PartBytes(pkt.protocol_header) \o PartBytes(pkt.payload)

\* Packet.msgtype: the value of the first protocol_header parameter named
\* "message type"
msgtype(pkt) ==
    LET hits == {i \in 1..Len(pkt.protocol_header) :
                    pkt.protocol_header[i].name = "message type"}
    IN  FromBytes(pkt.protocol_header[CHOOSE i \in hits : \A j \in hits : i <= j].bytes)

\* int(b) of a bool
BoolInt(b) == IF b THEN 1 ELSE 0

\* the default source argument of set_headers
DefaultSource == 123

\* Packet.set_headers(msgtype, tagged, source, res_required, ack_required, sequence)
set_headers(pkt, mtype, tagged, source, res_required, ack_required, sequence) ==
    LET protocol == packbytes(<< <<0, 2>>, <<BoolInt(tagged), 1>>, <<1, 1>>, <<1024, 12>> >>)
        resp == packbytes(<< <<0, 6>>, <<BoolInt(ack_required), 1>>,
                             <<BoolInt(res_required), 1>> >>)
        p1 == append_param(pkt, "frame", "protocol", PyInt(protocol), tobytes(16))
        p2 == append_param(p1, "frame", "source", PyInt(source), tobytes(32))
        p3 == append_param(p2, "frame_address", "target", PyInt(0), tobytes(64))
        p4 == append_param(p3, "frame_address", "reserved", PyInt(0), tobytes(48))
        p5 == append_param(p4, "frame_address", "resp", PyInt(resp), tobytes(8))
        p6 == append_param(p5, "frame_address", "sequence", PyInt(sequence), tobytes(8))
        p7 == append_param(p6, "protocol_header", "reserved", PyInt(0), tobytes(64))
        p8 == append_param(p7, "protocol_header", "message type", PyInt(mtype), tobytes(16))
    IN  append_param(p8, "protocol_header", "reserved", PyInt(0), tobytes(16))

\* int(duration * 1000) for duration = num / den seconds (0 < den <= 10^6),
\* truncated towards zero, as sign and limbs.  The product is the exact one: the
\* durations of this model are ones whose float product equals it.
DurationMs(duration) ==
    LET n == IF duration.num < 0 THEN 0 - duration.num ELSE duration.num
        q == n \div duration.den
        f == ((n % duration.den) * 1000) \div duration.den
        x == (q % 65536) * 1000 + f
        t == (q \div 65536) * 1000 + x \div 65536
        limbs == <<x % 65536, t % 65536, t \div 65536>>
    IN  [neg |-> duration.num < 0 /\ limbs # <<0, 0, 0>>, limbs |-> limbs]

\* Packet.get_state()
GetStatePacket ==
    set_size(set_headers(NewPacket, 101, FALSE, DefaultSource, TRUE, FALSE, 0))

\* Packet.state(hue, saturation, brightness, kelvin, duration) for integer
\* hue, saturation, brightness and kelvin
StatePacket(hue, saturation, brightness, kelvin, duration) ==
    LET h == set_headers(NewPacket, 102, FALSE, DefaultSource, TRUE, FALSE, 0)
        p1 == append_param(h, "payload", "reserved", PyInt(0), 1)
        p2 == append_param(p1, "payload", "hue", PyInt(hue), tobytes(16))
        p3 == append_param(p2, "payload", "saturation", PyInt(saturation), tobytes(16))
        p4 == append_param(p3, "payload", "brightness", PyInt(brightness), tobytes(16))
        p5 == append_param(p4, "payload", "kelvin", PyInt(kelvin), tobytes(16))
        p6 == append_param(p5, "payload", "duration", DurationMs(duration), tobytes(32))
    IN  set_size(p6)

\* Packet.power(power, duration)
PowerPacket(power, duration) ==
    LET h == set_headers(NewPacket, 117, FALSE, DefaultSource, TRUE, FALSE, 0)
        p1 == append_param(h, "payload", "level", PyInt(65535 * BoolInt(power)), tobytes(16))
        p2 == append_param(p1, "payload", "duration", DurationMs(duration), tobytes(32))
    IN  set_size(p2)

\* the payload of Packet.state, in the order it is appended, as a decode schema
STATE_PAYLOAD ==
    << Plain("reserved", 8), Plain("hue", 16), Plain("saturation", 16),
       Plain("brightness", 16), Plain("kelvin", 16), Plain("duration", 32) >>

\* the payload of Packet.power as a decode schema
POWER_PAYLOAD == << Plain("level", 16), Plain("duration", 32) >>

\* get_state: decodemap
decodemap ==
    MSGHEADER \o
    << Plain("hue", 16), Plain("saturation", 16), Plain("brightness", 16),
       Plain("kelvin", 16), Plain("reserved", 16), Plain("power", 16),
       Plain("label", 32), Plain("reserved", 64) >>

\* get_state, after the response is received: dict(deconstruct(response, decodemap))
decode_state(response) == deconstruct(response, decodemap, 0)

\* the schema a packet of message type mtype decodes with
SchemaOf(mtype) ==
    MSGHEADER \o (IF mtype = 102 THEN STATE_PAYLOAD
                  ELSE IF mtype = 117 THEN POWER_PAYLOAD ELSE <<>>)

(***************************************************************************)
(* The codec's calls: the inputs SpecCodec draws                           *)
(***************************************************************************)
Dur(n, d) == [num |-> n, den |-> d]

\* hue, saturation and brightness arguments: in range, and -1 and 65536
HueArgs == {-1, 0, 255, 256, 65535, 65536}

SaturationArgs == {0, 1, 65535, 65536}

BrightnessArgs == {-1, 0, 655, 40000, 65535, 65536}

\* kelvin arguments: inside 2500..9000, outside it within 16 bits, outside 16 bits
KelvinArgs == {-1, 0, 2499, 2500, 3500, 9000, 9001, 65535, 65536}

\* durations in seconds: 0, 0.1, 0.0015, 300, 4294967, and -1, -0.0001,
\* 4294967.2 and 4294968 outside 0..4294967
DurationArgs ==
    {Dur(0, 1), Dur(1, 10), Dur(3, 2000), Dur(300, 1), Dur(4294967, 1),
     Dur(-1, 1), Dur(-1, 10000), Dur(42949672, 10), Dur(4294968, 1)}

InRange16(x) == 0 <= x /\ x <= 65535

KelvinInRange(k) == 2500 <= k /\ k <= 9000

\* 0 <= duration <= 4294967 seconds
DurationInRange(d) ==
    /\ 0 <= d.num
    /\ \/ d.num \div d.den < 4294967
       \/ d.num \div d.den = 4294967 /\ d.num % d.den = 0

\* a device's light state
Reading(h, s, b, k, p) ==
    [hue |-> h, saturation |-> s, brightness |-> b, kelvin |-> k, power |-> p]

\* the readings a device reports in this model: bright with the power on
\* (twice the same brightness in two colours, once with power exactly 0xFF00),
\* bright with the power off, bright with the power just below 0xFF00, and
\* at the dark threshold (6553 < 0.1 * 65535 < 6554)
Readings ==
    { Reading(21845, 65535, 40000, 2700, 65535),
      Reading(100, 200, 40000, 9000, 65535),
      Reading(21845, 65535, 30000, 2700, 65280),
      Reading(21845, 65535, 40000, 2700, 0),
      Reading(21845, 65535, 6554, 2700, 65279),
      Reading(21845, 65535, 6553, 2700, 65535) }

Le16(x) == <<x % 256, x \div 256>>

\* the datagram of a device's state response: the 36 header bytes (size 68,
\* protocol 0x1400, message type 107) and the 32 payload bytes decodemap reads
ResponseBytes(r) ==
    <<68, 0, 0, 20>> \o <<123, 0, 0, 0>> \o <<208, 115, 213, 1, 2, 3, 0, 0>>
    \o Zeros(6) \o <<0, 7>> \o Zeros(8) \o <<107, 0>> \o Zeros(2)
    \o Le16(r.hue) \o Le16(r.saturation) \o Le16(r.brightness) \o Le16(r.kelvin)
    \o Zeros(2) \o Le16(r.power) \o <<76, 97, 109, 112>> \o Zeros(8)

\* the lengths a received datagram is cut to: whole (68 bytes) and truncated
DatagramLengths == {0, 1, 2, 35, 36, 40, 41, 42, 47, 67, 68}

Datagrams ==
    {Slice(ResponseBytes(r), 0, n) : r \in Readings, n \in DatagramLengths}

\* packbytes calls: three (value, width) pieces, each value from 0 to 2^width,
\* the last of which does not fit the width; the widths sum to at most
\* MaxPackBits
PackCalls ==
    LET W == 1..(MaxPackBits - 2)
    IN  UNION { { [op |-> "packbytes", pieces |-> << <<a, w[1]>>, <<b, w[2]>>, <<c, w[3]>> >>] :
                    a \in 0..(2 ^ w[1]), b \in 0..(2 ^ w[2]), c \in 0..(2 ^ w[3]) } :
                w \in {t \in W \X W \X W : t[1] + t[2] + t[3] <= MaxPackBits} }

Calls ==
    {[op |-> "get_state"]}
    \cup {[op |-> "state", hue |-> h, saturation |-> s, brightness |-> b,
           kelvin |-> k, duration |-> d] :
            h \in HueArgs, s \in SaturationArgs, b \in BrightnessArgs,
            k \in KelvinArgs, d \in DurationArgs}
    \cup {[op |-> "power", power |-> on, duration |-> d] :
            on \in BOOLEAN, d \in DurationArgs}
    \cup PackCalls
    \cup {[op |-> "deconstruct", datagram |-> g] : g \in Datagrams}

(***************************************************************************)
(* lifx.py: the values the controller computes                             *)
(***************************************************************************)
\* MotionHandler.dark = 0.01, as <<numerator, denominator>>
dark == <<1, 100>>

\* fadetime.total_seconds() of the default fadetime, timedelta(minutes=5)
FadeSeconds == 300

\* int(level * 0xFFFF) for 0 <= level <= 1 (brightness passes level * 0xFFFF,
\* Packet.state takes int() of it); 0xFFFF = 255 * 257 is multiplied in two
\* steps to stay within 31 bits
IntLevel(lv) ==
    LET a == lv[1] * 255
    IN  (a \div lv[2]) * 257 + ((a % lv[2]) * 257) \div lv[2]

\* get_state: the entries of dict(deconstruct(response, decodemap)) the
\* controller reads
NewState(fields) ==
    [hue |-> DictGet(fields, "hue", 0),
     saturation |-> DictGet(fields, "saturation", 0),
     brightness |-> DictGet(fields, "brightness", 0),
     kelvin |-> DictGet(fields, "kelvin", 0),
     power |-> DictGet(fields, "power", 0)]

\* the datagrams the light answers a query with: whole responses, and one cut
\* before the power field
QueryDatagrams ==
    {ResponseBytes(r) : r \in Readings}
    \cup {Slice(ResponseBytes(Reading(21845, 65535, 40000, 2700, 65535)), 0, 46)}

\* what get_state returns for them
QueryResults == {NewState(decode_state(g)) : g \in QueryDatagrams}

\* MotionHandler.brightness(level, duration) with state the dict it uses: the
\* packet it hands to send_packet
brightness_packet(state, lv, duration) ==
    StatePacket(state.hue, state.saturation, IntLevel(lv), state.kelvin, duration)

\* a command as the light receives it: the fields of the datagram, and the
\* handler that sent it
CommandFields(by, f) ==
    [by |-> by, type |-> DictGet(f, "type", 0),
     hue |-> DictGet(f, "hue", 0), saturation |-> DictGet(f, "saturation", 0),
     brightness |-> DictGet(f, "brightness", 0), kelvin |-> DictGet(f, "kelvin", 0),
     duration |-> DictGet(f, "duration", <<>>)]

Command(by, pkt) ==
    CommandFields(by, deconstruct(PacketBytes(pkt), SchemaOf(msgtype(pkt)), 0))

\* the levels brightness() is called with: dark, 1, and a cached brightness over
\* 0xFFFF
Levels ==
    {dark, <<1, 1>>} \cup {<<r.brightness, 65535>> : r \in QueryResults}

\* the durations brightness() is called with: the fade time, and its default 0.1
Durations == {Dur(FadeSeconds, 1), Dur(1, 10)}

\* what becomes of a packet handed to send_packet: the exception of its
\* construction, or the command the light receives
Wired(by, pkt) == [err |-> pkt.err, cmd |-> Command(by, pkt)]

\* brightness() for each handler, state, level and duration of this model
Wire ==
    [by \in {"timeout", "motion"}, state \in QueryResults, lv \in Levels,
     duration \in Durations |-> Wired(by, brightness_packet(state, lv, duration))]

\* a test of a new state that looks at the brightness alone
poll_bright_any_power(new_state) ==
    new_state.brightness * dark[2] > dark[1] * 10 * 65535

\* the poll loop's test of a new state: brightness > (dark * 10) * 0xFFFF and
\* power >= 0xFF00
poll_bright(new_state) ==
    /\ new_state.brightness * dark[2] > dark[1] * 10 * 65535
    /\ new_state.power >= 65280

\* a test that the new state differs from the cached one in any field
poll_changed_any_field(new_state, cache) == new_state \notin cache

\* the poll loop's test that the brightness differs from the cached one
\* (last_state.get("brightness") is None for an empty cache)
poll_changed(new_state, cache) ==
    \A c \in cache : new_state.brightness # c.brightness

(***************************************************************************)
(* State                                                                   *)
(***************************************************************************)
VARIABLES
    call,           \* SpecCodec: the codec call made, with its arguments
    ret,            \* SpecCodec: what the call returned, [st |-> "pending"] before it
    is_active,      \* MotionHandler.is_active
    is_fading,      \* MotionHandler.is_fading
    last_state,     \* MotionHandler.last_state: {} or {the cached reading}
    timer,          \* the Timer self.timer refers to: "new", "waiting", "fired", "cancelled"
    fading_timer,   \* the Timer self.fading_timer refers to: "new", "stopped", "waiting", "dead"
    strays,         \* started inactivity timers, not fired or cancelled, self.timer no longer refers to
    orphans,        \* started fade timers, not fired or cancelled, self.fading_timer no longer refers to
    tpc,            \* the executions of timeout() under way: how many stand at each place
    spc,            \* where the sensor thread stands in motion(), "idle" between events
    level,          \* motion(): the level it passes to brightness(), <<numerator, denominator>>
    ppc,            \* where the poll loop stands: "check" or "query"
    sent,           \* the set-color commands sent to the light, in order
    hist            \* the order of no_motion, motion (at its timer cancel), timer fires
                    \* and errors that leave timeout()

cvars == <<call, ret>>

kvars == <<is_active, is_fading, last_state, timer, strays, fading_timer, orphans,
           tpc, spc, level, ppc, sent, hist>>

vars == <<call, ret, is_active, is_fading, last_state, timer, strays, fading_timer,
          orphans, tpc, spc, level, ppc, sent, hist>>

\* send_packet: the packet was built, the light receives it
Receives(wired) ==
    /\ wired.err = "none"
    /\ sent' = Append(sent, wired.cmd)

\* send_packet(Packet.state(...)) in brightness()
Sends(by, state, lv, duration) == Receives(Wire[by, state, lv, duration])

(***************************************************************************)
(* SpecCodec: one call of the codec on drawn arguments                     *)
(***************************************************************************)
\* what a builder returns: the packet's bytes, or the exception it raised
Built(pkt) ==
    [st |-> "done", err |-> pkt.err,
     bytes |-> IF pkt.err = "none" THEN PacketBytes(pkt) ELSE <<>>,
     msgtype |-> IF pkt.err = "none" THEN msgtype(pkt) ELSE 0]

\* the places of timeout() an execution can stand at: before line 133 (t1),
\* before brightness() (t2), in get_state (tq), before lines 135 (t4a), 136
\* (t4x), 137 (t4b), 138 (t4c) and 139 (t5)
TimeoutPlaces == {"t1", "t2", "tq", "t4a", "t4x", "t4b", "t4c", "t5"}

\* a constructor that starts the inactivity timer it creates
InitHandler_timer_started ==
    /\ is_active = TRUE
    /\ is_fading = FALSE
    /\ last_state = {}
    /\ timer = "waiting"
    /\ fading_timer = "new"
    /\ strays = 0
    /\ orphans = 0
    /\ tpc = [l \in TimeoutPlaces |-> 0]
    /\ spc = "idle"
    /\ level = <<0, 1>>
    /\ ppc = "check"
    /\ sent = <<>>
    /\ hist = <<>>

\* MotionHandler.__init__
InitHandler ==
    /\ is_active = TRUE
    /\ is_fading = FALSE
    /\ last_state = {}
    /\ timer = "new"
    /\ fading_timer = "new"
    /\ strays = 0
    /\ orphans = 0
    /\ tpc = [l \in TimeoutPlaces |-> 0]
    /\ spc = "idle"
    /\ level = <<0, 1>>
    /\ ppc = "check"
    /\ sent = <<>>
    /\ hist = <<>>

InitCodec ==
    /\ call \in Calls
    /\ ret = [st |-> "pending"]
    /\ InitHandler

CallGetState ==
    /\ call.op = "get_state" /\ ret.st = "pending"
    /\ ret' = Built(GetStatePacket)
    /\ UNCHANGED <<call, kvars>>

CallState ==
    /\ call.op = "state" /\ ret.st = "pending"
    /\ ret' = Built(StatePacket(call.hue, call.saturation, call.brightness,
                                call.kelvin, call.duration))
    /\ UNCHANGED <<call, kvars>>

CallPower ==
    /\ call.op = "power" /\ ret.st = "pending"
    /\ ret' = Built(PowerPacket(call.power, call.duration))
    /\ UNCHANGED <<call, kvars>>

CallPackbytes ==
    /\ call.op = "packbytes" /\ ret.st = "pending"
    /\ ret' = [st |-> "done", err |-> "none", val |-> packbytes(call.pieces)]
    /\ UNCHANGED <<call, kvars>>

CallDeconstruct ==
    /\ call.op = "deconstruct" /\ ret.st = "pending"
    /\ ret' = [st |-> "done", err |-> "none", fields |-> decode_state(call.datagram)]
    /\ UNCHANGED <<call, kvars>>

NextCodec ==
    \/ CallGetState
    \/ CallState
    \/ CallPower
    \/ CallPackbytes
    \/ CallDeconstruct

SpecCodec == InitCodec /\ [][NextCodec]_vars

(***************************************************************************)
(* Spec: the controller of lifx.py.  The sensor thread runs motion() and   *)
(* no_motion(), one at a time; every fired inactivity timer runs timeout() *)
(* on a thread of its own; fade timers run fading_false(); the main thread *)
(* runs the poll loop.  A step is one statement, or a run of statements    *)
(* that touch no shared state, up to the next blocking transport call.     *)
(***************************************************************************)
Init ==
    /\ call = [op |-> "none"]
    /\ ret = [st |-> "pending"]
    /\ InitHandler

\* the sensor events so far
SensorEvents == Cardinality({i \in 1..Len(hist) : hist[i] \in {"motion", "no_motion"}})

\* the cached state, when there is one
Cached == CHOOSE c \in last_state : TRUE

\* a cancel that leaves a waiting timer waiting
Cancelled_never(t, dead) == t

\* self.timer.cancel() under "if self.timer.is_alive()", on the sensor thread
\* that alone assigns self.timer: a waiting timer is cancelled; one that was
\* never started is not alive, and cancelling one whose callback runs or has
\* run changes nothing
Cancelled(t, dead) == IF t = "waiting" THEN dead ELSE t

\* Timer.cancel() on the fade timer the attribute refers to when the call is
\* made: a waiting timer is stopped; a timer not started yet keeps the mark and
\* will not call fading_false when it is started ("stopped"); cancelling one
\* that has fired or was cancelled changes nothing
cancel(t) ==
    CASE t = "waiting" -> "dead"
      [] t = "new" -> "stopped"
      [] OTHER -> t

\* motion(), line 147: the event arrives, self.fading_timer.is_alive() is read
MotionBegin ==
    /\ spc = "idle" /\ SensorEvents < MaxEvents
    /\ spc' = IF fading_timer = "waiting" THEN "m1a" ELSE "m1b"
    /\ UNCHANGED <<cvars, is_active, is_fading, last_state, timer, strays, fading_timer,
                   orphans, tpc, level, ppc, sent, hist>>

\* motion(), line 148: self.fading_timer.cancel()
MotionCancelFade ==
    /\ spc = "m1a"
    /\ fading_timer' = cancel(fading_timer)
    /\ spc' = "m1b"
    /\ UNCHANGED <<cvars, is_active, is_fading, last_state, timer, strays, orphans, tpc,
                   level, ppc, sent, hist>>

\* motion(), lines 149-150: the inactivity timer is cancelled
MotionCancelTimer ==
    /\ spc = "m1b"
    /\ timer' = Cancelled(timer, "cancelled")
    /\ hist' = Append(hist, "motion")
    /\ spc' = "m2"
    /\ UNCHANGED <<cvars, is_active, is_fading, last_state, strays, fading_timer,
                   orphans, tpc, level, ppc, sent>>

\* a level to restore that is always full scale
motion_level_full(cache) == <<1, 1>>

\* motion(), lines 151-153: the level to restore, from the cached brightness
motion_level(cache) ==
    IF cache = {} THEN <<1, 1>> ELSE <<(CHOOSE c \in cache : TRUE).brightness, 65535>>

\* a motion() that restores whatever is_active says
MotionCheck_always_restores ==
    /\ spc = "m2"
    /\ spc' = "m3" /\ level' = motion_level(last_state)
    /\ UNCHANGED <<cvars, is_active, is_fading, last_state, timer, strays, fading_timer,
                   orphans, tpc, ppc, sent, hist>>

\* motion(), line 151: the test of is_active
MotionCheck ==
    /\ spc = "m2"
    /\ IF is_active
       THEN spc' = "m5" /\ UNCHANGED level
       ELSE spc' = "m3" /\ level' = motion_level(last_state)
    /\ UNCHANGED <<cvars, is_active, is_fading, last_state, timer, strays, fading_timer,
                   orphans, tpc, ppc, sent, hist>>

\* motion() in brightness(), line 168 with a cached state, and lines 170-178
MotionSendCached ==
    /\ spc = "m3" /\ last_state # {}
    /\ Sends("motion", Cached, level, Dur(1, 10))
    /\ spc' = "m5"
    /\ UNCHANGED <<cvars, is_active, is_fading, last_state, timer, strays, fading_timer,
                   orphans, tpc, level, ppc, hist>>

\* motion() in brightness(), line 168 without a cached state: get_state is called
MotionQuery ==
    /\ spc = "m3" /\ last_state = {}
    /\ spc' = "mq"
    /\ UNCHANGED <<cvars, is_active, is_fading, last_state, timer, strays, fading_timer,
                   orphans, tpc, level, ppc, sent, hist>>

\* motion() in brightness(): get_state returns, the command is sent
MotionQueryReturn ==
    /\ spc = "mq"
    /\ \E state \in QueryResults :
          Sends("motion", state, level, Dur(1, 10))
    /\ spc' = "m5"
    /\ UNCHANGED <<cvars, is_active, is_fading, last_state, timer, strays, fading_timer,
                   orphans, tpc, level, ppc, hist>>

\* motion() in brightness(): the query or the send raises (socket.timeout,
\* OSError); the exception leaves motion() before line 155
MotionTransportFails ==
    /\ spc \in {"m3", "mq"}
    /\ spc' = "idle"
    /\ level' = <<0, 1>>
    /\ UNCHANGED <<cvars, is_active, is_fading, last_state, timer, strays, fading_timer,
                   orphans, tpc, ppc, sent, hist>>

\* motion(), line 155
MotionFinish ==
    /\ spc = "m5"
    /\ is_active' = TRUE
    /\ spc' = "idle"
    /\ level' = <<0, 1>>
    /\ UNCHANGED <<cvars, is_fading, last_state, timer, strays, fading_timer, orphans,
                   tpc, ppc, sent, hist>>

\* no_motion() that starts a new timer without the cancel of lines 161-162
NoMotion_no_cancel ==
    /\ spc = "idle" /\ SensorEvents < MaxEvents
    /\ strays' = IF timer = "waiting" THEN strays + 1 ELSE strays
    /\ timer' = "waiting"
    /\ hist' = Append(hist, "no_motion")
    /\ UNCHANGED <<cvars, is_active, is_fading, last_state, fading_timer, orphans,
                   tpc, spc, level, ppc, sent>>

\* no_motion(), lines 157-164: the timer is cancelled when alive (161-162), a
\* new Timer is assigned (163) and started (164); a timer still waiting that
\* the attribute referred to would stay pending
NoMotion ==
    /\ spc = "idle" /\ SensorEvents < MaxEvents
    /\ strays' = IF Cancelled(timer, "cancelled") = "waiting" THEN strays + 1 ELSE strays
    /\ timer' = "waiting"
    /\ hist' = Append(hist, "no_motion")
    /\ UNCHANGED <<cvars, is_active, is_fading, last_state, fading_timer, orphans,
                   tpc, spc, level, ppc, sent>>

RECURSIVE SumOver(_, _)
SumOver(f, S) ==
    IF S = {} THEN 0
    ELSE LET x == CHOOSE y \in S : TRUE IN f[x] + SumOver(f, S \ {x})

\* the executions of timeout() under way
Running == SumOver(tpc, TimeoutPlaces)

\* an execution of timeout() moves from one place to the next
Step(from, to) == tpc' = [tpc EXCEPT ![from] = @ - 1, ![to] = @ + 1]

\* an execution of timeout() ends, normally or with the exception raised again
Leave(from) == tpc' = [tpc EXCEPT ![from] = @ - 1]

\* a timer that stays armed after it fired
TimerFire_repeating ==
    /\ timer = "waiting"
    /\ Running < MaxTimeouts
    /\ tpc' = [tpc EXCEPT !["t1"] = @ + 1]
    /\ hist' = Append(hist, "fire")
    /\ UNCHANGED <<cvars, is_active, is_fading, last_state, timer, strays, fading_timer,
                   orphans, spc, level, ppc, sent>>

\* the inactivity timer fires: its thread starts to run timeout()
TimerFire ==
    /\ timer = "waiting"
    /\ Running < MaxTimeouts
    /\ tpc' = [tpc EXCEPT !["t1"] = @ + 1]
    /\ timer' = "fired"
    /\ hist' = Append(hist, "fire")
    /\ UNCHANGED <<cvars, is_active, is_fading, last_state, strays, fading_timer,
                   orphans, spc, level, ppc, sent>>

\* timeout(), line 133
TimeoutInactive ==
    /\ tpc["t1"] > 0
    /\ is_active' = FALSE
    /\ Step("t1", "t2")
    /\ UNCHANGED <<cvars, is_fading, last_state, timer, strays, fading_timer, orphans,
                   spc, level, ppc, sent, hist>>

\* timeout(), line 134 in brightness() with a cached state
TimeoutSendCached ==
    /\ tpc["t2"] > 0 /\ last_state # {}
    /\ Sends("timeout", Cached, dark, Dur(FadeSeconds, 1))
    /\ Step("t2", "t4a")
    /\ UNCHANGED <<cvars, is_active, is_fading, last_state, timer, strays, fading_timer,
                   orphans, spc, level, ppc, hist>>

\* timeout(), line 134 in brightness() without a cached state: get_state is called
TimeoutQuery ==
    /\ tpc["t2"] > 0 /\ last_state = {}
    /\ Step("t2", "tq")
    /\ UNCHANGED <<cvars, is_active, is_fading, last_state, timer, strays, fading_timer,
                   orphans, spc, level, ppc, sent, hist>>

\* a brightness() that keeps the state it queried as the cached one
TimeoutQueryReturn_caches ==
    /\ tpc["tq"] > 0
    /\ \E state \in QueryResults :
          /\ Sends("timeout", state, dark, Dur(FadeSeconds, 1))
          /\ last_state' = {state}
    /\ Step("tq", "t4a")
    /\ UNCHANGED <<cvars, is_active, is_fading, timer, strays, fading_timer,
                   orphans, spc, level, ppc, hist>>

\* timeout() in brightness(): get_state returns, the command is sent
TimeoutQueryReturn ==
    /\ tpc["tq"] > 0
    /\ \E state \in QueryResults :
          Sends("timeout", state, dark, Dur(FadeSeconds, 1))
    /\ Step("tq", "t4a")
    /\ UNCHANGED <<cvars, is_active, is_fading, last_state, timer, strays, fading_timer,
                   orphans, spc, level, ppc, hist>>

\* timeout() in brightness(): the query or the send raises; lines 141-143 log
\* the exception and raise it again, which ends the timer thread
TimeoutTransportFails ==
    /\ \E l \in {"t2", "tq"} : tpc[l] > 0 /\ Leave(l)
    /\ hist' = Append(hist, "error")
    /\ UNCHANGED <<cvars, is_active, is_fading, last_state, timer, strays, fading_timer,
                   orphans, spc, level, ppc, sent>>

\* timeout(), line 135: self.fading_timer.is_alive() is read
TimeoutFadeAlive ==
    /\ tpc["t4a"] > 0
    /\ IF fading_timer = "waiting" THEN Step("t4a", "t4x") ELSE Step("t4a", "t4b")
    /\ UNCHANGED <<cvars, is_active, is_fading, last_state, timer, strays, fading_timer,
                   orphans, spc, level, ppc, sent, hist>>

\* timeout(), line 136: self.fading_timer.cancel()
TimeoutCancelFade ==
    /\ tpc["t4x"] > 0
    /\ fading_timer' = cancel(fading_timer)
    /\ Step("t4x", "t4b")
    /\ UNCHANGED <<cvars, is_active, is_fading, last_state, timer, strays, orphans,
                   spc, level, ppc, sent, hist>>

\* timeout(), line 137: a new Timer; one still waiting that the attribute
\* referred to stays pending
TimeoutNewFade ==
    /\ tpc["t4b"] > 0
    /\ fading_timer' = "new"
    /\ orphans' = IF fading_timer = "waiting" THEN orphans + 1 ELSE orphans
    /\ Step("t4b", "t4c")
    /\ UNCHANGED <<cvars, is_active, is_fading, last_state, timer, strays,
                   spc, level, ppc, sent, hist>>

\* timeout(), line 138: self.fading_timer.start(); a timer cancelled before its
\* start ends at once without calling fading_false
TimeoutStartFade ==
    /\ tpc["t4c"] > 0 /\ fading_timer \in {"new", "stopped"}
    /\ fading_timer' = IF fading_timer = "new" THEN "waiting" ELSE "dead"
    /\ Step("t4c", "t5")
    /\ UNCHANGED <<cvars, is_active, is_fading, last_state, timer, strays, orphans,
                   spc, level, ppc, sent, hist>>

\* timeout(), line 138 on a Timer another execution has started already:
\* RuntimeError, logged and raised again by lines 141-143
TimeoutStartFadeRaises ==
    /\ tpc["t4c"] > 0 /\ fading_timer \in {"waiting", "dead"}
    /\ Leave("t4c")
    /\ hist' = Append(hist, "error")
    /\ UNCHANGED <<cvars, is_active, is_fading, last_state, timer, strays, fading_timer,
                   orphans, spc, level, ppc, sent>>

\* timeout(), lines 139-140
TimeoutFading ==
    /\ tpc["t5"] > 0
    /\ is_fading' = TRUE
    /\ Leave("t5")
    /\ UNCHANGED <<cvars, is_active, last_state, timer, strays, fading_timer, orphans,
                   spc, level, ppc, sent, hist>>

\* the fade timer self.fading_timer refers to fires: fading_false()
FadeFire ==
    /\ fading_timer = "waiting"
    /\ fading_timer' = "dead"
    /\ is_fading' = FALSE
    /\ UNCHANGED <<cvars, is_active, last_state, timer, strays, orphans, tpc,
                   spc, level, ppc, sent, hist>>

\* a fade timer the attribute no longer refers to fires: fading_false()
OrphanFadeFire ==
    /\ orphans > 0
    /\ orphans' = orphans - 1
    /\ is_fading' = FALSE
    /\ UNCHANGED <<cvars, is_active, last_state, timer, strays, fading_timer, tpc,
                   spc, level, ppc, sent, hist>>

\* the poll loop, line 192, when the test holds: get_state is called
PollCheck ==
    /\ ppc = "check"
    /\ is_active \/ (~is_active /\ ~is_fading)
    /\ ppc' = "query"
    /\ UNCHANGED <<cvars, is_active, is_fading, last_state, timer, strays, fading_timer,
                   orphans, tpc, spc, level, sent, hist>>

\* the poll loop, lines 194-201: the new state is tested and stored
PollStore(new_state) ==
    last_state' = IF poll_bright(new_state) /\ poll_changed(new_state, last_state)
                  THEN {new_state} ELSE last_state

\* the poll loop, lines 193-201: get_state returns, the new state is tested and
\* stored
PollReturn ==
    /\ ppc = "query"
    /\ \E new_state \in QueryResults : PollStore(new_state)
    /\ ppc' = "check"
    /\ UNCHANGED <<cvars, is_active, is_fading, timer, strays, fading_timer, orphans,
                   tpc, spc, level, sent, hist>>

\* an except clause that drops the cached state
PollTimeout_drops_cache ==
    /\ ppc = "query"
    /\ ppc' = "caught"
    /\ last_state' = {}
    /\ UNCHANGED <<cvars, is_active, is_fading, timer, strays, fading_timer,
                   orphans, tpc, spc, level, sent, hist>>

\* the poll loop, lines 202-206: get_state raises socket.timeout, which is
\* caught and logged
PollTimeout ==
    /\ ppc = "query"
    /\ ppc' = "caught"
    /\ UNCHANGED <<cvars, is_active, is_fading, last_state, timer, strays, fading_timer,
                   orphans, tpc, spc, level, sent, hist>>

\* the poll loop, lines 207-208 and 190 after the except clause: the sleep, then
\* the next iteration
PollRetry ==
    /\ ppc = "caught"
    /\ ppc' = "check"
    /\ UNCHANGED <<cvars, is_active, is_fading, last_state, timer, strays, fading_timer,
                   orphans, tpc, spc, level, sent, hist>>

Next ==
    \/ MotionBegin
    \/ MotionCancelFade
    \/ MotionCancelTimer
    \/ MotionCheck
    \/ MotionSendCached
    \/ MotionQuery
    \/ MotionQueryReturn
    \/ MotionTransportFails
    \/ MotionFinish
    \/ NoMotion
    \/ TimerFire
    \/ TimeoutInactive
    \/ TimeoutSendCached
    \/ TimeoutQuery
    \/ TimeoutQueryReturn
    \/ TimeoutTransportFails
    \/ TimeoutFadeAlive
    \/ TimeoutCancelFade
    \/ TimeoutNewFade
    \/ TimeoutStartFade
    \/ TimeoutStartFadeRaises
    \/ TimeoutFading
    \/ FadeFire
    \/ OrphanFadeFire
    \/ PollCheck
    \/ PollReturn
    \/ PollTimeout
    \/ PollRetry

Spec == Init /\ [][Next]_vars

\* the readings the poll loop accepts into an empty cache
Cacheable == {r \in QueryResults : poll_bright(r)}

(***************************************************************************)
(* FairSpec: the handlers and the timers without the poll loop, which       *)
(* writes last_state alone and is read by the handlers for the colour of    *)
(* their commands only; the cache is empty or holds what a poll stored.     *)
(***************************************************************************)
InitDim ==
    /\ call = [op |-> "none"]
    /\ ret = [st |-> "pending"]
    /\ is_active = TRUE /\ is_fading = FALSE
    /\ last_state \in {{}} \cup {{r} : r \in {c \in Cacheable : c.brightness = 40000}}
    /\ timer = "new" /\ strays = 0 /\ fading_timer = "new" /\ orphans = 0
    /\ tpc = [l \in TimeoutPlaces |-> 0]
    /\ spc = "idle" /\ level = <<0, 1>> /\ ppc = "check"
    /\ sent = <<>> /\ hist = <<>>

NextDim ==
    \/ MotionBegin
    \/ MotionCancelFade
    \/ MotionCancelTimer
    \/ MotionCheck
    \/ MotionSendCached
    \/ MotionQuery
    \/ MotionQueryReturn
    \/ MotionTransportFails
    \/ MotionFinish
    \/ NoMotion
    \/ TimerFire
    \/ TimeoutInactive
    \/ TimeoutSendCached
    \/ TimeoutQuery
    \/ TimeoutQueryReturn
    \/ TimeoutTransportFails
    \/ TimeoutFadeAlive
    \/ TimeoutCancelFade
    \/ TimeoutNewFade
    \/ TimeoutStartFade
    \/ TimeoutStartFadeRaises
    \/ TimeoutFading
    \/ FadeFire
    \/ OrphanFadeFire

\* the steps of the executions of timeout() whose transport calls return
TimeoutSteps ==
    \/ TimeoutInactive
    \/ TimeoutSendCached
    \/ TimeoutQuery
    \/ TimeoutQueryReturn
    \/ TimeoutFadeAlive
    \/ TimeoutCancelFade
    \/ TimeoutNewFade
    \/ TimeoutStartFade
    \/ TimeoutStartFadeRaises
    \/ TimeoutFading

\* the steps of motion() after its first, when its transport calls return
MotionSteps ==
    \/ MotionCancelFade
    \/ MotionCancelTimer
    \/ MotionCheck
    \/ MotionSendCached
    \/ MotionQuery
    \/ MotionQueryReturn
    \/ MotionFinish

\* the fires of started timers
TimerFires ==
    \/ TimerFire
    \/ FadeFire
    \/ OrphanFadeFire

\* Every started thread keeps running and every started Timer that is not
\* cancelled fires.  Each execution of a handler ends after a bounded number of
\* steps and the sensor events are bounded, so that fairness of the steps of a
\* kind taken together is fairness of each.  Sensor events and transport errors
\* are left to the environment.
Fairness ==
    /\ WF_vars(TimerFires)
    /\ WF_vars(TimeoutSteps)
    /\ WF_vars(MotionSteps)

FairSpec == InitDim /\ [][NextDim]_vars /\ Fairness

(***************************************************************************)
(* SpecPoll: iterations of the poll loop alone, from every combination of  *)
(* the flags, a cache and the state the query returns.                     *)
(***************************************************************************)
InitPoll ==
    /\ call \in {[op |-> "poll", reading |-> r] : r \in QueryResults}
    /\ ret = [st |-> "pending"]
    /\ is_active \in BOOLEAN
    /\ is_fading \in BOOLEAN
    /\ last_state \in {{}} \cup {{r} : r \in Cacheable}
    /\ timer = "new" /\ strays = 0 /\ fading_timer = "new" /\ orphans = 0
    /\ tpc = [l \in TimeoutPlaces |-> 0]
    /\ spc = "idle" /\ level = <<0, 1>> /\ ppc = "check"
    /\ sent = <<>> /\ hist = <<>>

\* the poll loop, lines 193-201, with the state the query returns drawn
\* beforehand; ret keeps the cache the iteration found
PollDrawn ==
    /\ call.op = "poll" /\ ppc = "query"
    /\ PollStore(call.reading)
    /\ ppc' = "check"
    /\ ret' = [st |-> "done", before |-> last_state]
    /\ UNCHANGED <<call, is_active, is_fading, timer, strays, fading_timer, orphans,
                   tpc, spc, level, sent, hist>>

NextPoll ==
    \/ PollCheck
    \/ PollDrawn

SpecPoll == InitPoll /\ [][NextPoll]_vars

(***************************************************************************)
(* SpecVariant: the poll loop of lifx_not_working_laststate.py, which      *)
(* keeps the last three states queried and stores the newest when its test *)
(* passes.                                                                 *)
(***************************************************************************)
\* what get_state returns in this loop: the states of QueryResults, and a
\* light at brightness 655 (dimmed), at brightness 1 with the power on and at
\* brightness 1 with the power off
VariantResults ==
    QueryResults
    \cup {NewState(decode_state(ResponseBytes(r))) :
            r \in {Reading(21845, 65535, 655, 2700, 65535),
                   Reading(21845, 65535, 1, 2700, 65535),
                   Reading(21845, 65535, 1, 2700, 0)}}

\* a threshold of int(handler.dark * 0xFFFF), whatever the power
variant_threshold_dark(state) == IntLevel(dark)

\* int(handler.dark * 0xFFFF and state.get("power") == 0xFFFF): `and` gives its
\* left operand when that is 0.0 and the comparison otherwise, and int() of the
\* comparison is 1 or 0
variant_threshold(state) ==
    IF dark[1] = 0 THEN 0 ELSE BoolInt(state.power = 65535)

\* the for loop over zip(state_queue, state_queue[1:])
changing(state_queue) ==
    \E i \in 1..(Len(state_queue) - 1) :
        state_queue[i].brightness # state_queue[i + 1].brightness

\* if len(state_queue) >= 3: state_queue.pop(0); state_queue.append(state)
enqueue(state_queue, state) ==
    Append(IF Len(state_queue) >= 3 THEN Tail(state_queue) ELSE state_queue, state)

InitVariant ==
    /\ call = [op |-> "variant", state_queue |-> <<>>]
    /\ ret = [st |-> "pending"]
    /\ InitHandler

\* one iteration of the loop, with a query that returns
VariantPoll ==
    /\ call.op = "variant"
    /\ \E state \in VariantResults :
          /\ call' = [call EXCEPT !.state_queue = enqueue(@, state)]
          /\ last_state' =
                IF /\ state.brightness > variant_threshold(state)
                   /\ ~changing(enqueue(call.state_queue, state))
                THEN {state} ELSE last_state
    /\ UNCHANGED <<ret, is_active, is_fading, timer, strays, fading_timer, orphans,
                   tpc, spc, level, ppc, sent, hist>>

NextVariant == VariantPoll

SpecVariant == InitVariant /\ [][NextVariant]_vars

(***************************************************************************)
(* Claims about the codec, checked under SpecCodec                         *)
(***************************************************************************)
Builders == {"get_state", "state", "power"}

BuilderDone == ret.st = "done" /\ call.op \in Builders

\* the arguments of a builder call are inside their documented ranges
InRangeCall ==
    CASE call.op = "state" ->
            /\ InRange16(call.hue) /\ InRange16(call.saturation)
            /\ InRange16(call.brightness) /\ KelvinInRange(call.kelvin)
            /\ DurationInRange(call.duration)
      [] call.op = "power" -> DurationInRange(call.duration)
      [] OTHER -> TRUE

\* the fields a built packet decodes to, under MSGHEADER and its payload schema
Decoded == deconstruct(ret.bytes, SchemaOf(ret.msgtype), 0)

Field(k) == DictGet(Decoded, k, -1)

\* C1: every packet a builder produces from in-range arguments carries, in the
\* 16-bit little-endian value of its first two bytes, the number of bytes of
\* the whole serialized packet; in-range arguments always produce a packet.
C1_SizeInvariant ==
    BuilderDone =>
        /\ InRangeCall => ret.err = "none"
        /\ ret.err = "none" =>
              /\ Len(ret.bytes) >= 2
              /\ ret.bytes[1] + 256 * ret.bytes[2] = Len(ret.bytes)

C1_Witness ==
    /\ BuilderDone /\ call.op = "state" /\ InRangeCall
    /\ ret.err = "none" /\ Len(ret.bytes) = 49

\* a piece of the call whose value does not fit its width
Oversized ==
    \E i \in 1..Len(call.pieces) : call.pieces[i][1] > 2 ^ call.pieces[i][2] - 1

\* the three pieces of a packbytes call as the (key, value) pairs a composite
\* field of the same widths must decode to
PackedPieces ==
    << [key |-> "a", val |-> call.pieces[1][1]],
       [key |-> "b", val |-> call.pieces[2][1]],
       [key |-> "c", val |-> call.pieces[3][1]] >>

Unpacked ==
    deconstructSub(ret.val,
                   call.pieces[1][2] + call.pieces[2][2] + call.pieces[3][2],
                   << <<"a", call.pieces[1][2]>>, <<"b", call.pieces[2][2]>>,
                      <<"c", call.pieces[3][2]>> >>, 0)

\* C2: unpacking what packbytes returned for values that fit their widths, as a
\* binary string of the summed width sliced by the same widths, gives back the
\* three values, also when the first value is not 0.
C2_PackRoundTrip ==
    (ret.st = "done" /\ call.op = "packbytes" /\ ~Oversized) => Unpacked = PackedPieces

\* the milliseconds of a duration as a decoded 32-bit field shows them
MsField(d) == StripZeros(DurationMs(d).limbs)

\* C3: decoding the packet a builder made from in-range arguments, with
\* MSGHEADER followed by the message's payload schema, gives back every field
\* value: hue, saturation, brightness, kelvin and the duration in milliseconds
\* of a set color; the level (0xFFFF if on, else 0) and the duration in
\* milliseconds of a set power; the message type and source of each.
C3_BuilderRoundTrip ==
    (BuilderDone /\ InRangeCall) =>
        /\ ret.err = "none"
        /\ Field("source") = <<DefaultSource>>
        /\ Field("sequence") = 0
        /\ Field("type") = (CASE call.op = "get_state" -> 101
                              [] call.op = "state" -> 102
                              [] call.op = "power" -> 117)
        /\ call.op = "state" =>
              /\ Field("hue") = call.hue
              /\ Field("saturation") = call.saturation
              /\ Field("brightness") = call.brightness
              /\ Field("kelvin") = call.kelvin
              /\ Field("duration") = MsField(call.duration)
              /\ (call.duration.den = 1 /\ call.duration.num = 300) =>
                    Field("duration") = <<300000 % 65536, 300000 \div 65536>>
        /\ call.op = "power" =>
              /\ Field("level") = (IF call.power THEN 65535 ELSE 0)
              /\ Field("duration") = MsField(call.duration)

C3_Witness ==
    /\ BuilderDone /\ call.op = "state" /\ InRangeCall
    /\ call.hue = 256 /\ call.brightness = 40000 /\ call.kelvin = 9000
    /\ call.duration = Dur(4294967, 1)
    /\ Field("hue") = 256 /\ Field("brightness") = 40000
    /\ Field("duration") = <<65240, 65535>>

\* the value int(duration * 1000) is below 0 or above 2^32 - 1
MsOutOfWidth(d) ==
    \/ d.num < 0 /\ (0 - d.num) * 1000 >= d.den
    \/ d.num >= 0 /\ \/ d.num \div d.den > 4294967
                     \/ /\ d.num \div d.den = 4294967
                        /\ (d.num % d.den) * 1000 >= 296 * d.den

\* C4, as claimed: Packet.state raises and yields no packet whenever an argument
\* is outside its declared range (hue, saturation, brightness outside 0..65535,
\* kelvin outside 2500..9000, duration outside 0..4294967 s).
C4_RangeEnforced ==
    (ret.st = "done" /\ call.op = "state" /\ ~InRangeCall) =>
        (ret.err # "none" /\ ret.bytes = <<>>)

\* C4, amended: Packet.state raises (IndexError or OverflowError) and yields no
\* packet exactly when hue, saturation, brightness or kelvin is outside
\* 0..65535 or the duration in milliseconds is outside 0..2^32 - 1; so it does
\* for hue = 65536 and for brightness = -1, and no value that is serialized has
\* been truncated.
C4_WidthEnforced ==
    (ret.st = "done" /\ call.op = "state") =>
        /\ (ret.err # "none") <=>
              \/ ~InRange16(call.hue) \/ ~InRange16(call.saturation)
              \/ ~InRange16(call.brightness) \/ ~InRange16(call.kelvin)
              \/ MsOutOfWidth(call.duration)
        /\ ret.err # "none" => ret.bytes = <<>> /\ ret.err \in {"IndexError", "OverflowError"}
        /\ call.hue = 65536 => ret.err = "IndexError"
        /\ (call.brightness = -1 /\ InRange16(call.hue) /\ InRange16(call.saturation))
              => ret.err = "OverflowError"
        /\ ret.err = "none" =>
              /\ Field("hue") = call.hue /\ Field("saturation") = call.saturation
              /\ Field("brightness") = call.brightness /\ Field("kelvin") = call.kelvin

C4_Witness ==
    /\ ret.st = "done" /\ call.op = "state"
    /\ call.hue = 65536 /\ call.brightness = -1
    /\ ret.err = "IndexError" /\ ret.bytes = <<>>

\* C9: every packet of get_state, state and power decodes to origin 0, tagged
\* 0, addressable 1, protocol 1024, target 0 and message type 101, 102 and 117;
\* the get_state packet asks for a response (res_required 1) and has no
\* payload.
C9_HeaderContents ==
    (BuilderDone /\ ret.err = "none") =>
        /\ Field("origin") = 0 /\ Field("tagged") = 0
        /\ Field("addressable") = 1 /\ Field("protocol") = 1024
        /\ Field("target") = <<>>
        /\ Field("type") = ret.msgtype
        /\ ret.msgtype = (CASE call.op = "get_state" -> 101
                            [] call.op = "state" -> 102
                            [] call.op = "power" -> 117)
        /\ call.op = "get_state" =>
              /\ Field("res_required") = 1
              /\ Len(ret.bytes) = SchemaBytes(MSGHEADER)

C9_Witness ==
    /\ BuilderDone /\ call.op = "get_state" /\ ret.err = "none"
    /\ ret.msgtype = 101 /\ Len(ret.bytes) = 36

\* C10: decoding a state response fails with a DecodeError whenever the
\* datagram is shorter than the bytes the schema reads.
C10_TruncatedFails ==
    (ret.st = "done" /\ call.op = "deconstruct"
        /\ Len(call.datagram) < SchemaBytes(decodemap)) => ret.err = "DecodeError"

(***************************************************************************)
(* Claims about the controller, checked under Spec                         *)
(***************************************************************************)
Count(s, x) == Cardinality({i \in 1..Len(s) : s[i] = x})

IsSensorEvent(e) == e \in {"motion", "no_motion"}

\* the sensor events so far, in order
Sensor == SelectSeq(hist, IsSensorEvent)

\* the dim commands and the restore commands sent so far
Dims == {i \in 1..Len(sent) : sent[i].by = "timeout"}

Restores == {i \in 1..Len(sent) : sent[i].by = "motion"}

\* n milliseconds as a decoded 32-bit field shows them
Ms(n) == StripZeros(<<n % 65536, n \div 65536>>)

\* an execution of timeout() has returned from brightness(): its command is out
DimSent == tpc["t4a"] + tpc["t4x"] + tpc["t4b"] + tpc["t4c"] + tpc["t5"] > 0

\* scenario A: one motion-cleared event, and no sensor event after it
ScenarioA ==
    /\ spc = "idle"
    /\ Count(hist, "no_motion") = 1
    /\ Sensor[Len(Sensor)] = "no_motion"

\* C5: a timer fires at most once for each motion-cleared event and each fire
\* issues at most one dim command; every dim command is a set color at
\* brightness 655 (1% of 0xFFFF) over the fade time of 300 s; and after a single
\* motion-cleared event with no sensor event after it, once timeout() has sent
\* its command or armed the fade timer there is exactly one dim command, also
\* while the fade timer is pending and after it fired (a transport error in
\* timeout() ends it with no dim command).
C5_ScenarioA ==
    /\ Cardinality(Dims) <= Count(hist, "fire")
    /\ Count(hist, "fire") <= Count(hist, "no_motion")
    /\ \A i \in Dims :
          /\ sent[i].type = 102
          /\ sent[i].brightness = 655
          /\ sent[i].duration = Ms(FadeSeconds * 1000)
    /\ ScenarioA =>
          /\ Cardinality(Dims) <= 1
          /\ (DimSent \/ fading_timer # "new" \/ is_fading \/ orphans > 0)
                => Cardinality(Dims) = 1

C5_Witness ==
    /\ ScenarioA /\ Count(hist, "fire") = 1 /\ Running = 0
    /\ ~is_active /\ is_fading /\ fading_timer = "waiting"
    /\ Cardinality(Dims) = 1 /\ Len(sent) = 1
    /\ sent[1].brightness = 655 /\ sent[1].duration = <<37856, 4>>

\* the brightness the cache holds, 0xFFFF for an empty cache
CachedBrightness ==
    IF last_state = {} THEN 65535 ELSE Cached.brightness

\* C6: a motion-detected event that finds the controller Dimmed takes the level
\* B / 0xFFFF from the cached brightness B (level 1 from an empty cache), and
\* its call of brightness() sends exactly one set color command, over 0.1 s,
\* whose brightness field is B (0xFFFF for level 1); no other step of motion()
\* sends a command.
C6_ScenarioB ==
    [][ /\ (spc = "m2" /\ spc' # spc /\ ~is_active) =>
              /\ spc' = "m3"
              /\ level' = IF last_state = {} THEN <<1, 1>>
                          ELSE <<CachedBrightness, 65535>>
        /\ (spc \in {"m3", "mq"} /\ spc' = "m5") =>
              /\ Len(sent') = Len(sent) + 1
              /\ SubSeq(sent', 1, Len(sent)) = sent
              /\ sent'[Len(sent')].by = "motion"
              /\ sent'[Len(sent')].type = 102
              /\ sent'[Len(sent')].duration = Ms(100)
              /\ sent'[Len(sent')].brightness =
                    IF level = <<1, 1>> THEN 65535 ELSE level[1]
        /\ (spc' # spc /\ ~(spc \in {"m3", "mq"} /\ spc' = "m5")) =>
              sent' = sent
      ]_vars

C6_Witness ==
    /\ spc = "m5" /\ level = <<40000, 65535>>
    /\ Len(sent) = 2 /\ sent[1].by = "timeout"
    /\ sent[2].by = "motion" /\ sent[2].brightness = 40000

\* C7: after motion-detected, motion-cleared, motion-detected, where the second
\* motion-detected cancels the inactivity timer before it fired, the timer is
\* cancelled, never fires, no execution of timeout() runs and no dim command
\* is issued, for as long as no further sensor event arrives.
C7_ScenarioC ==
    (/\ Sensor = <<"motion", "no_motion", "motion">>
     /\ SubSeq(hist, 1, 3) = Sensor)
        => /\ hist = Sensor
           /\ timer = "cancelled"
           /\ Running = 0
           /\ Dims = {}

C7_Witness ==
    /\ hist = <<"motion", "no_motion", "motion">>
    /\ spc = "idle" /\ timer = "cancelled" /\ is_active /\ sent = <<>>

\* C8: the cache is empty or holds one reading the light gave, with power at
\* least 0xFF00 and brightness above 10 times the dark floor (0.1 * 0xFFFF).
C8_CacheContent ==
    /\ Cardinality(last_state) <= 1
    /\ \A c \in last_state :
          /\ c \in QueryResults
          /\ c.power >= 65280
          /\ c.brightness * 10 > 65535

C8_Witness ==
    /\ \E c \in last_state : c.power = 65280 /\ c.brightness = 30000
    /\ ~is_active /\ Len(sent) > 0

\* C11: every execution of motion() that completes (line 155) leaves is_active
\* true and is_fading false.
C11_MotionActiveNotFading ==
    [][(spc = "m5" /\ spc' = "idle") => (is_active' /\ ~is_fading')]_vars

\* C12: whenever motion() and every execution of timeout() have finished, the
\* controller is not Active (is_active true) with the dim command as the last
\* command sent to the light.
C12_Atomicity ==
    (spc = "idle" /\ Running = 0 /\ is_active /\ sent # <<>>)
        => sent[Len(sent)].by # "timeout"

\* the controller's own dim ramp is in progress: the last command sent is a dim
\* command, and its execution of timeout() has not armed the fade timer yet or
\* a fade timer is pending
RampInProgress ==
    /\ sent # <<>> /\ sent[Len(sent)].by = "timeout"
    /\ (DimSent \/ fading_timer = "waiting" \/ orphans > 0)

\* C13: a poll iteration whose state query returns while the controller's own
\* dim ramp is in progress does not write the cache.
C13_NoCacheDuringRamp ==
    [][(RampInProgress /\ ppc = "query" /\ ppc' = "check")
          => last_state' = last_state]_vars

\* the inactivity timers that are started and have neither fired nor been
\* cancelled
PendingTimers == (IF timer = "waiting" THEN 1 ELSE 0) + strays

\* C14: at most one inactivity timer is pending, and no_motion() leaves no
\* started timer pending behind the one it arms.
C14_OneInactivityTimer ==
    /\ PendingTimers <= 1
    /\ strays = 0

\* no_motion() has re-armed the timer while the one before it was pending
C14_Witness ==
    /\ \E i \in 1..(Len(hist) - 1) : hist[i] = "no_motion" /\ hist[i + 1] = "no_motion"
    /\ timer = "waiting" /\ PendingTimers = 1

\* the fade timers that are started and have neither fired nor been cancelled
PendingFadeTimers == (IF fading_timer = "waiting" THEN 1 ELSE 0) + orphans

\* C15: at most one fade timer is pending.
C15_OneFadeTimer == PendingFadeTimers <= 1

(***************************************************************************)
(* Claims about the poll iteration, checked under SpecPoll                 *)
(***************************************************************************)
\* the controller is not in the middle of its dim: Active, or Dimmed and
\* NotFading
NotMidDim == is_active \/ (~is_active /\ ~is_fading)

\* the three tests of a reading r against the cache
Observable(r, cache) ==
    /\ r.brightness * 10 > 65535
    /\ r.power >= 65280
    /\ \A c \in cache : c.brightness # r.brightness

\* C16: a poll iteration queries the light only when the controller is not
\* mid-dim; when its query returns a reading, it replaces the cache by the
\* reading if the brightness is above 0.1 * 0xFFFF, the power at least 0xFF00
\* and the brightness differs from the cached one, and leaves the cache as it
\* is otherwise; while the controller is mid-dim the cache does not change.
C16_ObserveGuard ==
    [][ /\ (ppc = "check" /\ ppc' = "query") => NotMidDim
        /\ (ppc = "query" /\ ppc' = "check") =>
              IF Observable(call.reading, last_state)
              THEN last_state' = {call.reading} /\ last_state' # last_state
              ELSE last_state' = last_state
        /\ ~NotMidDim => last_state' = last_state
      ]_vars

\* Active, the light at brightness 30000 with the power on: the cache that held
\* brightness 40000 holds 30000 after the iteration
C16_Witness ==
    /\ ret.st = "done" /\ is_active
    /\ \E c \in ret.before : c.brightness = 40000
    /\ call.reading.brightness = 30000
    /\ last_state = {call.reading}

(***************************************************************************)
(* Claims about failures, checked under Spec                               *)
(***************************************************************************)
\* C17: a timeout() or motion() whose transport call raises leaves is_active,
\* is_fading and last_state as they were before it began; so, as long as no
\* command has been sent, every handler that has ended has changed nothing and
\* the controller is still as constructed: Active and NotFading.
C17_FailureKeepsState ==
    (sent = <<>> /\ Running = 0 /\ spc = "idle") => (is_active /\ ~is_fading)

\* an error has left an execution of timeout()
TimeoutErrored == Count(hist, "error") > 0

\* C18: after an error has left timeout(), a no_motion() still leaves a started
\* inactivity timer, and an execution of timeout() whose transport call returns
\* still sends one dim command; a poll iteration whose query times out leaves
\* last_state as it was, and the loop goes on to the test of its next iteration.
C18_TimerHealth ==
    [][ /\ (TimeoutErrored /\ hist' = Append(hist, "no_motion")) => timer' = "waiting"
        /\ (TimeoutErrored /\ tpc'["t4a"] > tpc["t4a"]) =>
              /\ Len(sent') = Len(sent) + 1
              /\ sent'[Len(sent')].by = "timeout"
              /\ sent'[Len(sent')].brightness = 655
        /\ ppc' = "caught" => last_state' = last_state
        /\ (ppc = "caught" /\ ppc' # ppc) => (ppc' = "check" /\ last_state' = last_state)
      ]_vars

\* the first timeout() ended in an error; the no_motion() after it armed a timer,
\* which fired and sent the only dim command; the poll loop is in the sleep
\* after a timed-out query with the cache it had
C18_Witness ==
    /\ hist = <<"no_motion", "fire", "error", "no_motion", "fire">>
    /\ Cardinality(Dims) = 1 /\ Running = 0
    /\ ppc = "caught" /\ last_state # {}

\* C19: every command a handler sends carries the hue, saturation and kelvin of
\* last_state when there is a cached state, and hue 0, saturation 0 and kelvin
\* 3500 when there is none; and no handler ever queries the light to build its
\* command.
C19_CommandColour ==
    [][ /\ Len(sent') > Len(sent) =>
              IF last_state # {}
              THEN /\ sent'[Len(sent')].hue = Cached.hue
                   /\ sent'[Len(sent')].saturation = Cached.saturation
                   /\ sent'[Len(sent')].kelvin = Cached.kelvin
              ELSE /\ sent'[Len(sent')].hue = 0
                   /\ sent'[Len(sent')].saturation = 0
                   /\ sent'[Len(sent')].kelvin = 3500
        /\ tpc'["tq"] = 0 /\ spc' # "mq"
      ]_vars

(***************************************************************************)
(* Liveness, checked under FairSpec                                        *)
(***************************************************************************)
\* the n-th sensor event is a no_motion and the last one
LastNoMotion(n) == Len(Sensor) = n /\ Sensor[n] = "no_motion"

\* the n-th sensor event, a no_motion, has armed the inactivity timer
Armed(n) == LastNoMotion(n) /\ timer = "waiting"

\* a sensor event after the n-th, or an error that left timeout()
Interrupted(n) == Len(Sensor) > n \/ TimeoutErrored

DimmedFading == ~is_active /\ is_fading /\ fading_timer = "waiting"

DimmedNotFading == ~is_active /\ ~is_fading

\* C20: after a no_motion that no sensor event follows, when no transport call
\* of timeout() fails, the controller comes to be Dimmed and Fading with its
\* fade timer pending, and from there Dimmed and NotFading; and a fire of the
\* fade timer sends no command.
C20_DimLiveness ==
    /\ \A n \in 1..MaxEvents :
          /\ Armed(n) ~> (DimmedFading \/ Interrupted(n))
          /\ (LastNoMotion(n) /\ DimmedFading) ~> (DimmedNotFading \/ Interrupted(n))
    /\ [][(fading_timer = "waiting" /\ fading_timer' = "dead" /\ is_fading' # is_fading)
             => sent' = sent]_vars

(***************************************************************************)
(* Frame claims about the handlers, checked under Spec                     *)
(***************************************************************************)
\* C21: a motion() that finds is_active true at its test goes on to line 155
\* without a command; brightness() is entered by motion() only when is_active
\* is false; a command by motion() is sent only from inside that call, with
\* is_active false, and its ramp is 0.1 s; and no_motion() sends no command and
\* leaves is_active and is_fading as they are.
C21_RestoreOnlyDimmed ==
    [][ /\ (spc = "m2" /\ spc' # spc /\ is_active) => (spc' = "m5" /\ sent' = sent)
        /\ (spc # "m3" /\ spc' = "m3") => ~is_active
        /\ (Len(sent') > Len(sent) /\ sent'[Len(sent')].by = "motion") =>
              /\ ~is_active
              /\ spc \in {"m3", "mq"}
              /\ sent'[Len(sent')].duration = Ms(100)
        /\ hist' = Append(hist, "no_motion") =>
              /\ sent' = sent
              /\ is_active' = is_active
              /\ is_fading' = is_fading
      ]_vars

\* a motion in Active, then no_motion, the fire and its dim, then a motion in
\* Dimmed: one dim and one restore have been sent
C21_Witness ==
    /\ hist = <<"motion", "no_motion", "fire", "motion">>
    /\ spc = "idle" /\ Running = 0 /\ is_active
    /\ Len(sent) = 2 /\ sent[1].by = "timeout" /\ sent[2].by = "motion"

(***************************************************************************)
(* Further claims about the codec, checked under SpecCodec                 *)
(***************************************************************************)
\* C22: packbytes called with a piece whose value exceeds 2^width - 1 raises an
\* EncodingError and returns no integer.
C22_PackRejectsOversize ==
    (ret.st = "done" /\ call.op = "packbytes" /\ Oversized) => ret.err = "EncodingError"

\* the 16-bit little-endian value of the first two bytes of the packet returned
SizeField == ret.bytes[1] + 256 * ret.bytes[2]

\* len(self) as it was before set_size prepended the 2-byte size parameter
BeforePrepend == Len(ret.bytes) - 2

\* C23 as stated: the size field of every packet a builder returns holds the
\* length the packet had before the size parameter was prepended.
C23_SizeBeforePrepend ==
    (BuilderDone /\ ret.err = "none") => SizeField = BeforePrepend

\* C23: the size field of every packet a builder returns holds the length taken
\* after the size parameter was prepended, 2 more than the length before; for
\* Packet.get_state() that is the length of the headers plus 2.
C23_SizeAfterPrepend ==
    (BuilderDone /\ ret.err = "none") =>
        /\ SizeField = BeforePrepend + 2
        /\ call.op = "get_state" =>
              BeforePrepend =
                 PacketLen(set_headers(NewPacket, 101, FALSE, DefaultSource, TRUE, FALSE, 0))

C23_Witness ==
    /\ BuilderDone /\ call.op = "get_state" /\ ret.err = "none"
    /\ BeforePrepend = 34 /\ SizeField = 36

\* what the handlers and the timers move: the places of motion() and timeout(),
\* the flags, the timers, the commands and the order of events
HandlerState ==
    <<spc, level, tpc, is_active, is_fading, timer, strays, fading_timer, orphans,
      sent, hist>>

\* C24: no step of motion(), no_motion(), timeout() or fading_false() changes
\* last_state; the step that changes it is the poll loop's, after its query
\* returned, and it stores a state the query can return.
C24_CacheFrame ==
    [][ /\ HandlerState' # HandlerState => last_state' = last_state
        /\ last_state' # last_state =>
              /\ ppc = "query" /\ ppc' = "check"
              /\ \E r \in QueryResults : last_state' = {r}
      ]_vars

\* no_motion, the fire and timeout(), fading_false() and motion() have all run,
\* with a cache the poll loop stored left as it was
C24_Witness ==
    /\ hist = <<"no_motion", "fire", "motion">>
    /\ fading_timer = "dead" /\ spc = "idle" /\ Running = 0 /\ is_active
    /\ Len(sent) = 2
    /\ last_state # {}
    /\ sent[1].hue = Cached.hue /\ sent[2].brightness = Cached.brightness

(***************************************************************************)
(* The variant's poll loop, checked under SpecVariant                      *)
(***************************************************************************)
\* C25 as stated: the variant's poll loop never stores a state.
C25_VariantNeverAccepts == last_state = {}

\* the newest state of the queue
Newest == call.state_queue[Len(call.state_queue)]

\* C25: an iteration of the variant's poll loop stores the state it queried
\* when the brightness of that state is above 1 with the power at 0xFFFF, or
\* above 0 with any other power, and the states of the queue all have the same
\* brightness; otherwise it leaves last_state as it is.
C25_VariantAccepts ==
    [][ call' # call =>
          IF /\ Newest'.brightness > (IF Newest'.power = 65535 THEN 1 ELSE 0)
             /\ \A i, j \in 1..Len(call'.state_queue) :
                   call'.state_queue[i].brightness = call'.state_queue[j].brightness
          THEN last_state' = {Newest'}
          ELSE last_state' = last_state
      ]_vars

\* three queries that found the light at brightness 655: the dimmed state is
\* stored
C25_Witness ==
    /\ call.op = "variant" /\ Len(call.state_queue) = 3
    /\ \A i \in 1..3 : call.state_queue[i].brightness = 655
    /\ last_state = {Newest}

(***************************************************************************)
(* The duration field, checked under SpecCodec                             *)
(***************************************************************************)
\* duration * 1000 has a fractional part of one half or more
RoundsUp(d) == 2 * (((d.num % d.den) * 1000) % d.den) >= d.den

\* limbs + 1
IncLimbs(l) ==
    IF l[1] < 65535 THEN <<l[1] + 1, l[2], l[3]>>
    ELSE IF l[2] < 65535 THEN <<0, l[2] + 1, l[3]>>
    ELSE <<0, 0, l[3] + 1>>

\* round(duration * 1000) for a duration >= 0, as a decoded 32-bit field shows it
RoundedMsField(d) ==
    StripZeros(IF RoundsUp(d) THEN IncLimbs(DurationMs(d).limbs) ELSE DurationMs(d).limbs)

\* C26: the duration field of every set color and set power packet built from a
\* duration within 0..4294967 s decodes to round(duration * 1000), also when
\* duration * 1000 has a fractional part of one half or more.
C26_DurationRounded ==
    (/\ BuilderDone /\ call.op \in {"state", "power"}
     /\ ret.err = "none" /\ DurationInRange(call.duration))
        => Field("duration") = RoundedMsField(call.duration)

(***************************************************************************)
(* The cache and the colour of later commands, checked under SpecPoll      *)
(***************************************************************************)
\* the iteration found a cached state of the brightness its query returned
SameBrightness ==
    /\ ret.st = "done" /\ ret.before # {}
    /\ \A c \in ret.before : c.brightness = call.reading.brightness

\* C27: a poll iteration whose query returns a state of the cached brightness
\* leaves last_state as it found it, whatever the hue, saturation and kelvin
\* of the state returned; every command brightness() builds from the cache
\* then carries the hue, saturation and kelvin cached before.
C27_SameBrightnessKeepsCache ==
    SameBrightness =>
        /\ last_state = ret.before
        /\ \A c \in ret.before :
           \A by \in {"timeout", "motion"}, lv \in Levels, duration \in Durations :
              /\ Wire[by, Cached, lv, duration].cmd.hue = c.hue
              /\ Wire[by, Cached, lv, duration].cmd.saturation = c.saturation
              /\ Wire[by, Cached, lv, duration].cmd.kelvin = c.kelvin

\* Active, the state returned passes the brightness and power tests and has
\* the cached brightness in another hue, saturation and kelvin: the cache is
\* the one found
C27_Witness ==
    /\ SameBrightness /\ is_active
    /\ call.reading.brightness * 10 > 65535 /\ call.reading.power >= 65280
    /\ \A c \in ret.before :
          /\ c.hue # call.reading.hue
          /\ c.saturation # call.reading.saturation
          /\ c.kelvin # call.reading.kelvin
    /\ last_state = ret.before

(***************************************************************************)
(* The timer of the constructor, checked under Spec                        *)
(***************************************************************************)
\* C28: as long as no no_motion() has run, the inactivity timer is the unstarted
\* one of the constructor, no timer has fired, no execution of timeout() runs,
\* no command has been sent and the controller is Active and NotFading; so a
\* dim command is sent only after a no_motion(), and with no sensor event at
\* all nothing of this changes.
C28_NoDimWithoutNoMotion ==
    /\ Count(hist, "no_motion") = 0 =>
          /\ timer = "new" /\ fading_timer = "new"
          /\ Count(hist, "fire") = 0 /\ Running = 0
          /\ sent = <<>>
          /\ is_active /\ ~is_fading
    /\ Dims # {} => Count(hist, "no_motion") >= 1

\* two motions and polls that stored a state, and no no_motion: nothing was
\* sent and the timer of the constructor was never started
C28_Witness ==
    /\ hist = <<"motion", "motion">> /\ spc = "idle"
    /\ last_state # {} /\ ppc = "caught"
    /\ timer = "new" /\ sent = <<>> /\ is_active /\ ~is_fading

====
